---- MODULE Spec2Model ----
(***************************************************************************)
(* Model of grid_optimizer.py: GridDataProcessor (read_data, clean_data,   *)
(* transform_data, aggregate_weekly_output) and main.                      *)
(*                                                                         *)
(* Spec     : one GridDataProcessor object, its four methods called in any *)
(*            order (the object's public interface).                      *)
(* MainSpec : one run of main(), the fixed script of lines 346-402.        *)
(*                                                                         *)
(* Representation.                                                         *)
(*  - A missing cell (NaN / NaT) is the empty tuple NA, a present value v  *)
(*    is <<v>>.  self.dataframe / self.weekly_data are None or <<table>>.  *)
(*  - A Time cell as read from the CSV is text: a record [valid, day,      *)
(*    tick]; valid = FALSE is a non-empty string that is no date.          *)
(*    pd.to_datetime turns it into a timestamp, an integer number of ticks *)
(*    (TicksPerDay ticks per day, one tick standing for the resolution of  *)
(*    the index), day 0 being a Monday.  Empty Time cells are outside the  *)
(*    modelled inputs.                                                     *)
(*  - Source_ID s in 1..NumSources stands for the s-th identifier in       *)
(*    lexicographic order (the order groupby sorts its keys in).           *)
(*  - Power_Output and Efficiency_Factor are integers; Efficiency_Ratio is *)
(*    kept as the unevaluated quotient [kind, num, den].                   *)
(*  - A table carries two dtypes: dtype is the one of its Time column      *)
(*    ("object" as read, "datetime64" once converted), number_dtype the    *)
(*    one of Power_Output and Efficiency_Factor ("numeric", or "object"    *)
(*    when the file had no row to infer a type from).                      *)
(*  - argsort is the sorting routine of the installed build, one function  *)
(*    for all calls of a run, which says where equal values end up.  It is *)
(*    not known in advance: the variable holds the part of it the run has  *)
(*    seen, a set of [totals, order] pairs, and grows when the routine is  *)
(*    applied to totals it has not sorted before.                          *)
(***************************************************************************)
EXTENDS Integers, Sequences, FiniteSets, TLC

VARIABLES file, argsort, dataframe, weekly_data, top5_sources, report,
          outcome, done, calls, pc, exit_code

vars == <<file, argsort, dataframe, weekly_data, top5_sources, report,
          outcome, done, calls, pc, exit_code>>

(* ---- bounds of the model ---- *)
MaxRows == 2
MaxWeek == 2
NumSources == 6
TicksPerDay == 3

(* ---- constants of the program ---- *)
TopN == 5
DaysPerWeek == 7
Sunday == 6

NA == <<>>
None == <<>>

required_columns == {"Time", "Source_ID", "Power_Output", "Efficiency_Factor"}

MainOrder == <<"read_data", "clean_data", "transform_data",
               "aggregate_weekly_output", "ReportGenerator",
               "generate_matplotlib_report", "generate_plotly_dashboard",
               "summary">>

SixSteps == {"read_data", "clean_data", "transform_data",
             "aggregate_weekly_output", "generate_matplotlib_report",
             "generate_plotly_dashboard"}

(* ---- small helpers ---- *)
MinOf(S) == CHOOSE x \in S : \A y \in S : x <= y
MaxOf(S) == CHOOSE x \in S : \A y \in S : x >= y
Least(a, b) == IF a <= b THEN a ELSE b

RECURSIVE SumPower(_)
SumPower(rows) ==
    IF rows = <<>> THEN 0
    ELSE Head(rows).Power_Output[1] + SumPower(Tail(rows))

SeqsUpTo(S, n) == UNION { [1..k -> S] : k \in 0..n }

(* ---- cells and rows ---- *)
BadText == [valid |-> FALSE, day |-> 0, tick |-> 0]
TimeText(d, u) == [valid |-> TRUE, day |-> d, tick |-> u]
NoRatio == [kind |-> "absent", num |-> 0, den |-> 0]
NaNRatio == [kind |-> "nan", num |-> 0, den |-> 0]

Row(t, s, p, e) ==
    [Time |-> t, Source_ID |-> s, Power_Output |-> p,
     Efficiency_Factor |-> e, Efficiency_Ratio |-> NoRatio]

\* A row of a file that lacks some columns: the cells of those columns do not exist.
Project(r, cols) ==
    [Time |-> IF "Time" \in cols THEN r.Time ELSE BadText,
     Source_ID |-> IF "Source_ID" \in cols THEN r.Source_ID ELSE NA,
     Power_Output |-> IF "Power_Output" \in cols THEN r.Power_Output ELSE NA,
     Efficiency_Factor |-> IF "Efficiency_Factor" \in cols THEN r.Efficiency_Factor ELSE NA,
     Efficiency_Ratio |-> NoRatio]

Table(cols, rows) == [kind |-> "table", columns |-> cols, rows |-> rows]

(* ---- the input files the model runs on ---- *)
BrokenFiles == { [kind |-> k, columns |-> {}, rows |-> <<>>] :
                    k \in {"absent", "empty", "malformed"} }

SchemaFiles ==
    { Table(c, [i \in 1..n |-> Project(Row(TimeText(2, 1), <<1>>, <<1>>, <<1>>), c)]) :
        c \in (SUBSET required_columns) \ {{}}, n \in 0..1 }

CleanRows == { Row(t, <<1>>, p, e) :
                 t \in {BadText, TimeText(2, 1)},
                 p \in {NA, <<0 - 1>>, <<0>>, <<1>>},
                 e \in {<<0>>, <<1>>} }

CleanFiles == { Table(required_columns, rs) : rs \in SeqsUpTo(CleanRows, MaxRows) }

AggTimes == { TimeText(w * DaysPerWeek + d, u) :
                w \in 0..MaxWeek, d \in {0, Sunday}, u \in {0, 1, TicksPerDay - 1} }

AggRows == { Row(t, s, p, <<1>>) :
               t \in AggTimes, s \in {NA, <<1>>, <<2>>}, p \in {<<1>>, <<2>>} }

AggFiles == { Table(required_columns, rs) :
                rs \in {<<>>} \cup { <<a>> : a \in AggRows }
                              \cup { <<a, b>> : a \in AggRows, b \in AggRows } }

\* one reading per source, sources in ascending or descending order of identifier
RankFiles ==
    { Table(required_columns,
            [i \in 1..n |-> Row(TimeText(2, 1),
                                <<IF rev THEN n + 1 - i ELSE i>>, <<p[i]>>, <<1>>)]) :
        n \in 0..NumSources, rev \in BOOLEAN, p \in [1..NumSources -> {1, 2}] }

\* two sources, one reading each: the files on which a repeated call sorts ties again
TieFiles == { f \in RankFiles : Len(f.rows) = 2 }

ApiFiles == BrokenFiles \cup SchemaFiles \cup CleanFiles \cup TieFiles
MainFiles == BrokenFiles \cup SchemaFiles \cup CleanFiles \cup AggFiles \cup RankFiles

(* ---- results of a call ---- *)
Result(df, w, t, rep, exc, kind) ==
    [dataframe |-> df, weekly_data |-> w, top5_sources |-> t,
     report |-> rep, exc |-> exc, kind |-> kind, argsort |-> argsort]

Raise(df, exc, kind) == Result(df, weekly_data, top5_sources, report, exc, kind)

(* ---- GridDataProcessor.read_data ---- *)
\* what the body of the try block raises (lines 36-42), "none" when it returns
read_data_try(f) ==
    CASE f.kind = "absent"    -> "FileNotFoundError"
      [] f.kind = "empty"     -> "EmptyDataError"
      [] f.kind = "malformed" -> "ParserError"
      [] OTHER -> IF required_columns \ f.columns # {} THEN "ValueError" ELSE "none"

\* the except clauses of read_data (lines 51-67): what the method raises
read_data_except(inner) ==
    CASE inner = "FileNotFoundError" -> [exc |-> "FileNotFoundError", kind |-> "FileNotFound"]
      [] inner = "EmptyDataError"    -> [exc |-> "IOError", kind |-> "EmptyInput"]
      [] inner = "ParserError"       -> [exc |-> "IOError", kind |-> "ParseError"]
      [] OTHER                       -> [exc |-> "IOError", kind |-> "UnexpectedIO"]

\* pd.read_csv: the table of a file that parses.  Time is text; the number columns
\* get a numeric dtype from their cells, and dtype object when there is no row.
read_csv(f) ==
    [columns |-> f.columns, dtype |-> "object",
     number_dtype |-> IF f.rows = <<>> THEN "object" ELSE "numeric",
     rows |-> f.rows]

read_data_results ==
    LET inner == read_data_try(file)
        \* line 36 assigns self.dataframe before the columns are checked
        df == IF file.kind = "table" THEN <<read_csv(file)>> ELSE dataframe
    IN  IF inner = "none"
        THEN { Result(df, weekly_data, top5_sources, report, "none", "ok") }
        ELSE { Raise(df, read_data_except(inner).exc, read_data_except(inner).kind) }

(* ---- GridDataProcessor.clean_data ---- *)
\* pd.to_datetime(..., errors='coerce') on one cell
to_datetime(cell, dtype) ==
    IF dtype = "datetime64" THEN cell
    ELSE IF cell.valid THEN <<cell.day * TicksPerDay + cell.tick>> ELSE NA

HasTime(r) == r.Time # NA
HasPower(r) == r.Power_Output # NA

\* dropna(subset=[...]) keeps the rows in their order
dropna_Time(rows) == SelectSeq(rows, HasTime)
dropna_Power_Output(rows) == SelectSeq(rows, HasPower)

clean_data_results ==
    IF dataframe = None
    THEN { Raise(dataframe, "ValueError", "NoDataLoaded") }
    ELSE
      LET df == dataframe[1]
          original_count == Len(df.rows)
          converted == [df EXCEPT !.dtype = "datetime64",
                          !.rows = [i \in 1..Len(df.rows) |->
                                      [df.rows[i] EXCEPT !.Time = to_datetime(@, df.dtype)]]]
          dated == [converted EXCEPT !.rows = dropna_Time(converted.rows)]
          cleaned == [dated EXCEPT !.rows = dropna_Power_Output(dated.rows)]
          rows_removed == original_count - Len(cleaned.rows)
      IN  IF "Time" \notin df.columns
          THEN { Raise(dataframe, "KeyError", "Unrecognized") }
          ELSE IF "Power_Output" \notin df.columns
          THEN { Raise(<<dated>>, "KeyError", "Unrecognized") }
          ELSE IF original_count = 0
          \* line 92: len(self.dataframe) / original_count
          THEN { Raise(<<cleaned>>, "ZeroDivisionError", "Unrecognized") }
          ELSE { Result(<<cleaned>>, weekly_data, top5_sources,
                        <<[original |-> original_count, removed |-> rows_removed,
                           retained |-> Len(cleaned.rows)]>>,
                        "none", "ok") }

(* ---- GridDataProcessor.transform_data ---- *)
\* Power_Output / Efficiency_Factor on one row (float division of the two columns)
Divide(p, e) ==
    IF p = NA \/ e = NA THEN NaNRatio
    ELSE IF e[1] = 0
         THEN IF p[1] = 0 THEN NaNRatio
              ELSE [kind |-> "inf", num |-> IF p[1] > 0 THEN 1 ELSE 0 - 1, den |-> 0]
         ELSE [kind |-> "val", num |-> p[1], den |-> e[1]]

\* line 119: replace([inf, -inf], nan, inplace=True) on the column selected from the
\* frame.  Whether the frame sees the replacement depends on the pandas build: with
\* copy-on-write the selected column is a copy and the frame keeps its values.
replace_inf(ratio, copy_on_write) ==
    IF ratio.kind = "inf" /\ ~copy_on_write THEN NaNRatio ELSE ratio

transform_data_results ==
    IF dataframe = None
    THEN { Raise(dataframe, "ValueError", "NoDataLoaded") }
    ELSE
      LET df == dataframe[1]
          ratio(r) == Divide(r.Power_Output, r.Efficiency_Factor)
          out(cow) == [df EXCEPT
                         !.columns = @ \cup {"Efficiency_Ratio"},
                         !.rows = [i \in 1..Len(df.rows) |->
                                     [df.rows[i] EXCEPT !.Efficiency_Ratio =
                                         replace_inf(ratio(df.rows[i]), cow)]]]
      IN  IF ~({"Power_Output", "Efficiency_Factor"} \subseteq df.columns)
          THEN { Raise(dataframe, "KeyError", "Unrecognized") }
          ELSE IF df.number_dtype = "object"
          \* line 116: np.isinf on a column of dtype object, after line 111 has
          \* assigned the column
          THEN { Raise(<<out(TRUE)>>, "TypeError", "Unrecognized") }
          ELSE { Result(<<out(cow)>>, weekly_data, top5_sources, report, "none", "ok") :
                    cow \in BOOLEAN }

(* ---- GridDataProcessor.aggregate_weekly_output ---- *)
DayOf(t) == t \div TicksPerDay
Weekday(d) == d % DaysPerWeek
Midnight(d) == d * TicksPerDay

\* day + Week(weekday=6): the next Sunday strictly after the day
WeekForward(d) ==
    IF Weekday(d) = Sunday THEN d + DaysPerWeek ELSE d + (Sunday - Weekday(d))

\* day - Week(weekday=6): the last Sunday strictly before the day
WeekBack(d) ==
    IF Weekday(d) = Sunday THEN d - DaysPerWeek
    ELSE d + (Sunday - Weekday(d)) - DaysPerWeek

\* date_range(first, last, freq='W'): the Sundays from first to last (days)
date_range(first, last) ==
    [k \in 1..((last - first) \div DaysPerWeek + 1) |-> first + DaysPerWeek * (k - 1)]

\* a bin edge left at the start of its day
SundayStartBinEdge(d) == Midnight(d)

\* the right edge of the bin labelled by a day: rolled to the last moment of that day
AdjustBinEdge(d) == Midnight(d) + TicksPerDay - 1

HasSource(r) == r.Source_ID # NA

\* groupby('Source_ID'): the keys (rows with a missing key belong to no group)
GroupKeys(rows) == { rows[i].Source_ID[1] : i \in { j \in 1..Len(rows) : HasSource(rows[j]) } }

GroupRows(rows, s) ==
    LET InGroup(r) == r.Source_ID = <<s>> IN SelectSeq(rows, InGroup)

\* a resample that returns only the weeks that hold a reading
ResampleNonEmptyOnly(g) ==
    LET times == { g[i].Time[1] : i \in 1..Len(g) }
        InWeek(t, d) == DayOf(t) <= d /\ d < DayOf(t) + DaysPerWeek /\ Weekday(d) = Sunday
        labels == { d \in 0..(DayOf(MaxOf(times)) + DaysPerWeek) : \E t \in times : InWeek(t, d) }
        ordered == [k \in 1..Cardinality(labels) |->
                      CHOOSE d \in labels : Cardinality({ e \in labels : e < d }) = k - 1]
    IN  [k \in 1..Len(ordered) |->
            LET InBin(r) == InWeek(r.Time[1], ordered[k])
            IN  [Source_ID |-> g[1].Source_ID[1], Time |-> Midnight(ordered[k]),
                 Power_Output |-> SumPower(SelectSeq(g, InBin))]]

\* resample('W')['Power_Output'].sum() on one group: closed and labelled on the right,
\* one row per week from the first reading's to the last one's
Resample(g) ==
    LET times == { g[i].Time[1] : i \in 1..Len(g) }
        first == WeekBack(DayOf(MinOf(times)))
        last == WeekForward(DayOf(MaxOf(times)))
        all_labels == date_range(first, last)
        all_edges == [k \in 1..Len(all_labels) |-> AdjustBinEdge(all_labels[k])]
        \* the last edge is dropped when the one before it already covers the data
        n == IF all_edges[Len(all_edges) - 1] > MaxOf(times)
             THEN Len(all_edges) - 1 ELSE Len(all_edges)
    IN  [k \in 1..(n - 1) |->
            LET InBin(r) == all_edges[k] < r.Time[1] /\ r.Time[1] <= all_edges[k + 1]
            IN  [Source_ID |-> g[1].Source_ID[1], Time |-> Midnight(all_labels[k + 1]),
                 Power_Output |-> SumPower(SelectSeq(g, InBin))]]

\* the groups' results one after the other, keys ascending
RECURSIVE Weekly(_, _)
Weekly(rows, keys) ==
    IF keys = {} THEN <<>>
    ELSE LET s == MinOf(keys)
         IN  Resample(GroupRows(rows, s)) \o Weekly(rows, keys \ {s})

RECURSIVE SumWeekly(_)
SumWeekly(weekly) ==
    IF weekly = <<>> THEN 0
    ELSE Head(weekly).Power_Output + SumWeekly(Tail(weekly))

\* line 149: weekly_data.groupby('Source_ID')['Power_Output'].sum()
total_by_source(weekly, s) ==
    LET OfSource(r) == r.Source_ID = s
        rs == SelectSeq(weekly, OfSource)
    IN  SumWeekly(rs)

\* which keys may come first in the sorted totals
LargestFirst(weekly, keys) ==
    { s \in keys : \A o \in keys : total_by_source(weekly, s) >= total_by_source(weekly, o) }

\* line 149: the totals as a Series indexed by Source_ID
totals_of(weekly, keys) == [s \in keys |-> total_by_source(weekly, s)]

\* every order of the keys in which the totals never increase
RECURSIVE DescendingOrders(_, _)
DescendingOrders(weekly, keys) ==
    IF keys = {} THEN { <<>> }
    ELSE UNION { { <<s>> \o rest : rest \in DescendingOrders(weekly, keys \ {s}) } :
                    s \in LargestFirst(weekly, keys) }

\* line 150: sort_values(ascending=False).  The default sort (quicksort) is not a
\* stable one: where equal totals end up is fixed by the build, any order of them
\* being the result on some build, and is the same whenever the same totals are
\* sorted again.  build is what the run has seen of the build's routine.
sort_values(weekly, keys, build) ==
    LET seen == { m \in build : m.totals = totals_of(weekly, keys) }
    IN  IF seen # {} THEN { m.order : m \in seen }
        ELSE DescendingOrders(weekly, keys)

\* line 151: head(5)
head(order) == SubSeq(order, 1, Least(TopN, Len(order)))

aggregate_weekly_output_results ==
    IF dataframe = None
    THEN { Raise(dataframe, "ValueError", "NoDataLoaded") }
    ELSE
      LET df == dataframe[1]
          keys == GroupKeys(df.rows)
          weekly == Weekly(df.rows, keys)
      IN  IF ~({"Time", "Source_ID"} \subseteq df.columns)
          \* line 140 sort_values('Time'), line 145 groupby('Source_ID')
          THEN { Raise(dataframe, "KeyError", "Unrecognized") }
          ELSE IF df.dtype # "datetime64"
          \* resample on an index that holds no timestamps
          THEN { Raise(dataframe, "TypeError", "Unrecognized") }
          ELSE IF "Power_Output" \notin df.columns
          \* ['Power_Output'] is looked up on the resampler
          THEN { Raise(dataframe, "KeyError", "Unrecognized") }
          ELSE IF keys = {}
          \* no group: the resampled result has no Source_ID level, line 149 fails
          THEN { Result(dataframe, <<<<>>>>, top5_sources, report,
                        "KeyError", "Unrecognized") }
          ELSE { [Result(dataframe, <<weekly>>, head(order), report, "none", "ok")
                    EXCEPT !.argsort = argsort \cup
                              {[totals |-> totals_of(weekly, keys), order |-> order]}] :
                    order \in sort_values(weekly, keys, argsort) }

(* ---- ReportGenerator and the end of main ---- *)
\* ReportGenerator.__init__ creates the reports directory; the two generate_ methods
\* write one file each.  Whether a write succeeds is up to the file system.
io_results ==
    { Result(dataframe, weekly_data, top5_sources, report, "none", "ok"),
      Raise(dataframe, "IOError", "UnexpectedIO") }

\* lines 366-383: the summary formats the first and last Time of the table
summary_results ==
    IF dataframe[1].rows = <<>>
    THEN { Raise(dataframe, "ValueError", "Unrecognized") }
    ELSE { Result(dataframe, weekly_data, top5_sources, report, "none", "ok") }

(* ---- one call on the object ---- *)
Do(op, r) ==
    /\ dataframe' = r.dataframe
    /\ weekly_data' = r.weekly_data
    /\ top5_sources' = r.top5_sources
    /\ report' = r.report
    /\ outcome' = [op |-> op, exc |-> r.exc, kind |-> r.kind]
    /\ done' = IF r.exc = "none" THEN done \cup {op} ELSE done
    /\ argsort' = r.argsort
    /\ UNCHANGED file

InitObject ==
    /\ dataframe = None
    /\ weekly_data = None
    /\ top5_sources = <<>>
    /\ report = None
    /\ outcome = [op |-> "__init__", exc |-> "none", kind |-> "ok"]
    /\ done = {}
    /\ calls = <<>>
    /\ exit_code = None

(* ---- Spec: the methods of one GridDataProcessor, called in any order ---- *)
Init == file \in ApiFiles /\ argsort = {} /\ InitObject /\ pc = "caller"

read_data ==
    /\ pc = "caller"
    /\ \E r \in read_data_results : Do("read_data", r)
    /\ UNCHANGED <<calls, pc, exit_code>>

clean_data ==
    /\ pc = "caller"
    /\ \E r \in clean_data_results : Do("clean_data", r)
    /\ UNCHANGED <<calls, pc, exit_code>>

transform_data ==
    /\ pc = "caller"
    /\ \E r \in transform_data_results : Do("transform_data", r)
    /\ UNCHANGED <<calls, pc, exit_code>>

aggregate_weekly_output ==
    /\ pc = "caller"
    /\ \E r \in aggregate_weekly_output_results : Do("aggregate_weekly_output", r)
    /\ UNCHANGED <<calls, pc, exit_code>>

Next == read_data \/ clean_data \/ transform_data \/ aggregate_weekly_output

Spec == Init /\ [][Next]_vars

(* ---- MainSpec: main() ---- *)
Position(op) == CHOOSE i \in 1..Len(MainOrder) : MainOrder[i] = op

\* a main that goes on after a statement has raised
KeepGoing(op, exc) ==
    IF op = "summary" THEN "exit" ELSE MainOrder[Position(op) + 1]

\* where main goes after a statement: on to the next one, or to an except clause
after(op, exc) ==
    IF exc # "none" \/ op = "summary" THEN "exit" ELSE MainOrder[Position(op) + 1]

\* the except clauses of main (lines 387-402)
main_except(exc) ==
    CASE exc = "FileNotFoundError" -> 1
      [] exc = "IOError" -> 1
      [] OTHER -> 1

MainStep(op, r) ==
    /\ Do(op, r)
    /\ pc' = after(op, r.exc)
    /\ exit_code' = IF r.exc # "none" THEN <<main_except(r.exc)>>
                    ELSE IF op = "summary" THEN <<0>> ELSE exit_code
    /\ calls' = Append(calls, op)

MainInit == file \in MainFiles /\ argsort = {} /\ InitObject /\ pc = "read_data"

main_read_data ==
    /\ pc = "read_data"
    /\ \E r \in read_data_results : MainStep("read_data", r)

main_clean_data ==
    /\ pc = "clean_data"
    /\ \E r \in clean_data_results : MainStep("clean_data", r)

main_transform_data ==
    /\ pc = "transform_data"
    /\ \E r \in transform_data_results : MainStep("transform_data", r)

main_aggregate_weekly_output ==
    /\ pc = "aggregate_weekly_output"
    /\ \E r \in aggregate_weekly_output_results : MainStep("aggregate_weekly_output", r)

main_ReportGenerator ==
    /\ pc = "ReportGenerator"
    /\ \E r \in io_results : MainStep("ReportGenerator", r)

main_generate_matplotlib_report ==
    /\ pc = "generate_matplotlib_report"
    /\ \E r \in io_results : MainStep("generate_matplotlib_report", r)

main_generate_plotly_dashboard ==
    /\ pc = "generate_plotly_dashboard"
    /\ \E r \in io_results : MainStep("generate_plotly_dashboard", r)

main_summary ==
    /\ pc = "summary"
    /\ \E r \in summary_results : MainStep("summary", r)

MainNext ==
    \/ main_read_data
    \/ main_clean_data
    \/ main_transform_data
    \/ main_aggregate_weekly_output
    \/ main_ReportGenerator
    \/ main_generate_matplotlib_report
    \/ main_generate_plotly_dashboard
    \/ main_summary

MainSpec == MainInit /\ [][MainNext]_vars


(***************************************************************************)
(* The claims.                                                             *)
(***************************************************************************)
Completed(op) == outcome.op = op /\ outcome.exc = "none"

Predecessor(op) ==
    CASE op = "clean_data" -> "read_data"
      [] op = "transform_data" -> "clean_data"
      [] op = "aggregate_weekly_output" -> "transform_data"

FullTable == file.kind = "table" /\ file.columns = required_columns

\* the Sunday that ends the Monday-to-Sunday week of a day
WeekEndingDay(d) == d + (Sunday - Weekday(d))
WeekEnding(t) == Midnight(WeekEndingDay(DayOf(t)))

\* total Power_Output of one source over the cleaned rows
SourceTotal(rows, s) == SumPower(GroupRows(rows, s))

FirstSeen(rows, s) == MinOf({ i \in 1..Len(rows) : rows[i].Source_ID = <<s>> })

\* C1 (as claimed): a step other than read_data whose predecessor has not completed
\* on this object fails with the "no data loaded" error, so it completes only after
\* its predecessor has.
C1_StrictOrder ==
    (outcome.op \in {"clean_data", "transform_data", "aggregate_weekly_output"}
        /\ Predecessor(outcome.op) \notin done)
    => outcome.kind = "NoDataLoaded"

\* C2: every row (s, w) of the weekly aggregate holds the sum of Power_Output over
\* exactly the cleaned rows of source s whose timestamp lies in the Monday-to-Sunday
\* week ending on Sunday w; a Sunday reading at any time of day is in that Sunday's row.
C2_WeeklySums ==
    Completed("aggregate_weekly_output") =>
        \A i \in 1..Len(weekly_data[1]) :
            LET b == weekly_data[1][i]
                InBucket(r) == r.Source_ID = <<b.Source_ID>> /\ WeekEnding(r.Time[1]) = b.Time
            IN  /\ Weekday(DayOf(b.Time)) = Sunday
                /\ b.Power_Output = SumPower(SelectSeq(dataframe[1].rows, InBucket))

\* C2 witness: an aggregate in which one bucket sums two readings, one of them taken
\* on the Sunday itself after midnight.
C2_Witness ==
    /\ Completed("aggregate_weekly_output")
    /\ \E i \in 1..Len(weekly_data[1]) : \E j, k \in 1..Len(dataframe[1].rows) :
          LET b == weekly_data[1][i]
              r == dataframe[1].rows[j]
              q == dataframe[1].rows[k]
          IN  /\ j # k
              /\ r.Source_ID = <<b.Source_ID>> /\ q.Source_ID = <<b.Source_ID>>
              /\ WeekEnding(r.Time[1]) = b.Time /\ WeekEnding(q.Time[1]) = b.Time
              /\ Weekday(DayOf(r.Time[1])) = Sunday /\ r.Time[1] > Midnight(DayOf(r.Time[1]))
              /\ b.Power_Output = r.Power_Output[1] + q.Power_Output[1]

\* C3 (as claimed): the Power_Output of the weekly aggregate adds up to the
\* Power_Output of the cleaned table, rows without a Source_ID included.
C3_NoDrops ==
    Completed("aggregate_weekly_output") =>
        SumWeekly(weekly_data[1]) = SumPower(dataframe[1].rows)

\* the ranking of C4 apart from the order among equal totals: for a cleaned table with
\* n sources the list has min(5, n) distinct sources, totals never increase along it,
\* and no source left out has a larger total than one in it
Top5Ranked ==
    LET rows == dataframe[1].rows
        keys == GroupKeys(rows)
        top == top5_sources
    IN  /\ Len(top) = Least(5, Cardinality(keys))
        /\ \A i \in 1..Len(top) : top[i] \in keys
        /\ \A i, j \in 1..Len(top) : i # j => top[i] # top[j]
        /\ \A i, j \in 1..Len(top) :
              i < j => SourceTotal(rows, top[i]) >= SourceTotal(rows, top[j])
        /\ \A s \in keys \ { top[i] : i \in 1..Len(top) } :
              \A i \in 1..Len(top) : SourceTotal(rows, top[i]) >= SourceTotal(rows, s)

\* C4 (as claimed): on every cleaned table, of n >= 0 sources, aggregate_weekly_output
\* returns without an error a top-5 list that is ranked as above, and in which sources
\* with equal totals appear in the order in which they are first met in the rows.
C4_Top5InEncounterOrder ==
    outcome.op = "aggregate_weekly_output" =>
        /\ outcome.exc = "none"
        /\ Top5Ranked
        /\ \A i, j \in 1..Len(top5_sources) :
              LET rows == dataframe[1].rows
              IN  (i < j /\ SourceTotal(rows, top5_sources[i]) = SourceTotal(rows, top5_sources[j]))
                  => FirstSeen(rows, top5_sources[i]) < FirstSeen(rows, top5_sources[j])

\* a 2-row file, one source, two readings with valid timestamps in different weeks
TwoWeekFile ==
    /\ FullTable
    /\ Len(file.rows) = 2
    /\ file.rows[1].Time.valid /\ file.rows[2].Time.valid
    /\ file.rows[1].Source_ID # NA
    /\ file.rows[1].Source_ID = file.rows[2].Source_ID
    /\ file.rows[1].Power_Output # NA /\ file.rows[2].Power_Output # NA
    /\ WeekEndingDay(file.rows[1].Time.day) # WeekEndingDay(file.rows[2].Time.day)

\* the bucket of week-ending day d for the two readings of a TwoWeekFile
TwoWeekBucket(d) ==
    [Source_ID |-> file.rows[1].Source_ID[1],
     Time |-> Midnight(d),
     Power_Output |->
        IF d = WeekEndingDay(file.rows[1].Time.day) THEN file.rows[1].Power_Output[1]
        ELSE IF d = WeekEndingDay(file.rows[2].Time.day) THEN file.rows[2].Power_Output[1]
        ELSE 0]

\* C5 (as claimed): on such a file the pipeline returns exactly 2 buckets, one per
\* reading, and the top-5 list is that one source.  Stated for readings that are not
\* on the last instant of a day, so that what it shows is the weeks between the two.
C5_TwoBuckets ==
    (TwoWeekFile /\ outcome.op = "aggregate_weekly_output"
        /\ \A k \in 1..2 : file.rows[k].Time.tick # TicksPerDay - 1) =>
        /\ outcome.exc = "none"
        /\ Len(weekly_data[1]) = 2
        /\ { weekly_data[1][k] : k \in 1..2 }
             = { TwoWeekBucket(WeekEndingDay(file.rows[1].Time.day)),
                 TwoWeekBucket(WeekEndingDay(file.rows[2].Time.day)) }
        /\ top5_sources = <<file.rows[1].Source_ID[1]>>

\* C5 (amended): on such a file (both Power_Output present) the pipeline returns one
\* bucket for every week from the earlier reading's week to the later one's: the two
\* weeks with a reading hold that reading, every week between them holds 0 (so exactly
\* 2 buckets only when the weeks are adjacent), and one more bucket holding 0 follows
\* when the later reading lies on the last representable instant of its Sunday; the
\* top-5 list is that one source.
C5_BucketPerWeekOfSpan ==
    (TwoWeekFile /\ outcome.op = "aggregate_weekly_output") =>
        LET w1 == WeekEndingDay(file.rows[1].Time.day)
            w2 == WeekEndingDay(file.rows[2].Time.day)
            lo == Least(w1, w2)
            hi == IF w1 >= w2 THEN w1 ELSE w2
            later == IF w1 >= w2 THEN file.rows[1].Time ELSE file.rows[2].Time
            \* a reading at the last instant of its Sunday leaves one more, empty, bucket
            trailing == IF later.day = hi /\ later.tick = TicksPerDay - 1 THEN 1 ELSE 0
            weeks == (hi - lo) \div DaysPerWeek + 1 + trailing
        IN  /\ outcome.exc = "none"
            /\ Len(weekly_data[1]) = weeks
            /\ \A k \in 1..weeks :
                  weekly_data[1][k] = TwoWeekBucket(lo + DaysPerWeek * (k - 1))
            /\ top5_sources = <<file.rows[1].Source_ID[1]>>

\* C5 witness: the two readings are two weeks apart and the week between them has
\* its own bucket.
C5_Witness ==
    /\ TwoWeekFile
    /\ Completed("aggregate_weekly_output")
    /\ Len(weekly_data[1]) = 3
    /\ weekly_data[1][2].Power_Output = 0

\* C6 (as claimed): a file that lacks a required column makes read_data fail with the
\* schema-mismatch kind of error, before any step has processed a row.
C6_SchemaMismatch ==
    (outcome.op = "read_data" /\ file.kind = "table"
        /\ required_columns \ file.columns # {})
    => (outcome.kind = "SchemaMismatch" /\ done = {})

\* C7 (as claimed): a file with no data rows, empty or header only, makes read_data
\* fail with the "empty input" error, and clean_data never gets a table of no rows.
C7_EmptyInput ==
    /\ (outcome.op = "read_data" /\ (file.kind = "empty" \/ (FullTable /\ file.rows = <<>>)))
          => outcome.kind = "EmptyInput"
    /\ outcome.op = "clean_data" => file.rows # <<>>

\* C8 (as claimed): after transform_data on a cleaned table no Efficiency_Ratio is
\* infinite, a row with Efficiency_Factor 0 has a missing ratio, and every other row
\* has Power_Output / Efficiency_Factor.
C8_NoInfiniteRatio ==
    Completed("transform_data") =>
        \A i \in 1..Len(dataframe[1].rows) :
            LET r == dataframe[1].rows[i]
            IN  /\ r.Efficiency_Ratio.kind # "inf"
                /\ r.Efficiency_Factor = <<0>> => r.Efficiency_Ratio = NaNRatio
                /\ (r.Efficiency_Factor # NA /\ r.Efficiency_Factor # <<0>>)
                      => r.Efficiency_Ratio = [kind |-> "val", num |-> r.Power_Output[1],
                                               den |-> r.Efficiency_Factor[1]]

\* the rows of the file that have a date in Time and a Power_Output, in file order
ValidRow(r) == r.Time.valid /\ r.Power_Output # NA
ValidRows == SelectSeq(file.rows, ValidRow)

\* C9 (as claimed): on every file with the required columns, any number of rows,
\* read_data then clean_data completes, keeps exactly the valid rows in their order,
\* and reports retained + removed = original.
C9_CleanRetains ==
    (FullTable /\ outcome.op = "clean_data") =>
        /\ outcome.exc = "none"
        /\ Len(dataframe[1].rows) = Len(ValidRows)
        /\ \A i \in 1..Len(ValidRows) :
              /\ dataframe[1].rows[i].Time
                   = <<ValidRows[i].Time.day * TicksPerDay + ValidRows[i].Time.tick>>
              /\ dataframe[1].rows[i].Source_ID = ValidRows[i].Source_ID
              /\ dataframe[1].rows[i].Power_Output = ValidRows[i].Power_Output
              /\ dataframe[1].rows[i].Efficiency_Factor = ValidRows[i].Efficiency_Factor
        /\ report # None
        /\ report[1].original = Len(file.rows)
        /\ report[1].retained = Len(ValidRows)
        /\ report[1].retained + report[1].removed = report[1].original

\* C10: main calls the steps once each in the script's order; a step that raises ends
\* the run with exit code 1 and nothing after it is called; main ends with exit code
\* 0 or 1, and with 0 exactly when all six steps completed.
C10_ExitCode ==
    /\ Len(calls) <= Len(MainOrder)
    /\ calls = SubSeq(MainOrder, 1, Len(calls))
    /\ done \subseteq { calls[i] : i \in 1..Len(calls) }
    /\ outcome.exc # "none" =>
          /\ pc = "exit"
          /\ exit_code = <<1>>
          /\ calls[Len(calls)] = outcome.op
          /\ outcome.op \notin done
    /\ pc # "exit" => exit_code = None
    /\ pc = "exit" =>
          /\ exit_code \in {<<0>>, <<1>>}
          /\ exit_code = <<0>> <=> SixSteps \subseteq done

\* C10 witness: a run in which the first report step raised after the four data
\* steps completed, and main returned 1 without calling the second report step.
C10_Witness ==
    /\ pc = "exit"
    /\ exit_code = <<1>>
    /\ outcome.op = "generate_matplotlib_report"
    /\ "aggregate_weekly_output" \in done

====
